---- MODULE Spec2Model ----
(***************************************************************************)
(* Injection-molding quoting tool: the quote calculator                    *)
(* (useQuoteCalculator, src/src/App.jsx), the React host that feeds it     *)
(* (upload, analysis response, saved quotes) and the /api/analyze          *)
(* endpoint the host calls.                                                *)
(*                                                                         *)
(* Numbers.  The code computes with JavaScript numbers.  The model         *)
(* computes with exact rationals extended by the three IEEE specials,      *)
(* which is where the code's divisions by zero end up.  A number is a      *)
(* record [n, d]:                                                          *)
(*    d > 0 : the value n/d, with gcd(n, d) = 1                            *)
(*    d = 0 : n = 1 is +Infinity, n = -1 is -Infinity, n = 0 is NaN        *)
(* Floating-point rounding is not modelled.                                *)
(***************************************************************************)
EXTENDS Integers, Sequences, FiniteSets, TLC

VARIABLES
    \* the React state of App (App.jsx:94-120)
    parameters,        \* `parameters`
    analysisData,      \* `analysisData`
    fileName,          \* `fileName`
    fileExtension,     \* `fileExtension`
    isLoading,         \* `isLoading`
    errorMessage,      \* `errorMessage`
    isHistoryOpen,     \* `isHistoryOpen`
    db,                \* `db`: null, or the Firestore handle
    userId,            \* `userId`
    isAuthReady,       \* `isAuthReady`
    quoteHistory,      \* `quoteHistory`: the last snapshot, newest first
    \* the hook called in the render (App.jsx:122)
    quoteResults,      \* what useQuoteCalculator returned, Undefined before
                       \*   the first render, TypeError when the render threw
    memo,              \* the useMemo cell of the hook (App.jsx:44)
    \* the environment
    firebaseConfig,    \* the build's `firebaseConfig` (App.jsx:14)
    store,             \* the documents of the user's quotes collection
    request,           \* the fetch of analyzeFile in flight, or null
    \* bookkeeping of the model
    geometryOf,        \* the file name of the input that analysisData came from
    edits,             \* parameter changes made so far
    saves,             \* documents added so far
    \* the useMemo callback run statement by statement (App.jsx:45-67)
    pc,                \* the section of the callback that runs next
    locals,            \* the constants of the callback assigned so far
    \* the serverless functions (API/analyze.js, API/forge-webhook.js,
    \* api/poll-status.js)
    MOCK_STORAGE,      \* `global.MOCK_STORAGE`: a record per key
    submitted,         \* the job ids that /api/analyze handed out
    webhooks,          \* per job id, the status of the last webhook processed for it
    reported           \* per job id, the status that the last poll reported

calcVars == <<parameters, analysisData, quoteResults, memo>>
uiVars   == <<fileName, fileExtension, isLoading, errorMessage, isHistoryOpen>>
fireVars == <<db, userId, isAuthReady, quoteHistory, firebaseConfig, store>>
envVars  == <<request, geometryOf, edits, saves>>
stepVars == <<pc, locals>>
jobVars  == <<MOCK_STORAGE, submitted, webhooks, reported>>
vars == <<calcVars, uiVars, fireVars, envVars, stepVars, jobVars>>

----------------------------------------------------------------------------
(* JavaScript numbers *)

Abs(x) == IF x < 0 THEN -x ELSE x

Sgn(x) == IF x < 0 THEN -1 ELSE IF x = 0 THEN 0 ELSE 1

RECURSIVE GCD(_, _)
GCD(a, b) == IF b = 0 THEN a ELSE GCD(b, a % b)

LCM(a, b) == (a \div GCD(a, b)) * b

\* The number n/d, d > 0, in lowest terms.
Q(n, d) ==
    LET g == GCD(Abs(n), d)
    IN  [n |-> n \div g, d |-> d \div g]

Num(k) == [n |-> k, d |-> 1]

Infinity    == [n |-> 1,  d |-> 0]
NegInfinity == [n |-> -1, d |-> 0]
NaN         == [n |-> 0,  d |-> 0]

IsFinite(a) == a.d > 0
IsNaN(a)    == a.d = 0 /\ a.n = 0

\* -a
Neg(a) == [a EXCEPT !.n = -a.n]

\* a + b
Add(a, b) ==
    IF IsFinite(a) /\ IsFinite(b)
    THEN LET l == LCM(a.d, b.d)
         IN  Q(a.n * (l \div a.d) + b.n * (l \div b.d), l)
    ELSE IF IsNaN(a) \/ IsNaN(b) THEN NaN
    ELSE IF ~IsFinite(a) /\ ~IsFinite(b) /\ a.n # b.n THEN NaN
    ELSE IF ~IsFinite(a) THEN a ELSE b

\* a - b
Sub(a, b) == Add(a, Neg(b))

\* a * b; Infinity * 0 is NaN
Mul(a, b) ==
    IF IsFinite(a) /\ IsFinite(b)
    THEN LET g1 == GCD(Abs(a.n), b.d)
             g2 == GCD(Abs(b.n), a.d)
         IN  [n |-> (a.n \div g1) * (b.n \div g2),
              d |-> (a.d \div g2) * (b.d \div g1)]
    ELSE [n |-> Sgn(a.n) * Sgn(b.n), d |-> 0]

\* 1 / b; the zero of the model is the positive zero, so 1 / 0 is Infinity
Inv(b) ==
    IF b.n = 0 THEN (IF b.d = 0 THEN NaN ELSE Infinity)
    ELSE IF b.d = 0 THEN Num(0)
    ELSE IF b.n > 0 THEN [n |-> b.d, d |-> b.n]
    ELSE [n |-> -b.d, d |-> -b.n]

\* a / b; 0 / 0 is NaN
Div(a, b) == Mul(a, Inv(b))

\* a < b, a <= b, a > b: false when either side is NaN
Lt(a, b) == ~IsNaN(a) /\ ~IsNaN(b) /\ a # b /\ Sub(a, b).n < 0
Leq(a, b) == ~IsNaN(a) /\ ~IsNaN(b) /\ (a = b \/ Sub(a, b).n < 0)
Gt(a, b) == Lt(b, a)

\* Math.max(a, b)
MathMax(a, b) ==
    IF IsNaN(a) \/ IsNaN(b) THEN NaN ELSE IF Lt(a, b) THEN b ELSE a

\* !x for a number x: true of 0 and of NaN
Falsy(x) == x.n = 0

\* The values a JavaScript expression can have beside a number or an object.
Null      == [kind |-> "null"]
Undefined == [kind |-> "undefined"]
\* The outcome of an evaluation that throws a TypeError.
TypeError == [kind |-> "TypeError"]
\* A JavaScript string, where the value may also be null.
Str(s) == [kind |-> "string", value |-> s]
\* !x for x null, undefined or a string
FalsyValue(x) == x = Null \/ x = Undefined \/ x = Str("")

----------------------------------------------------------------------------
(* Data models and constants, App.jsx:18-32 *)

MATERIALS == <<
    [name |-> "ABS (Acrylonitrile Butadiene Styrene)",
     density |-> Q(105, 100), pricePerKg |-> Q(350, 100), factor |-> Q(8, 10)],
    [name |-> "PP (Polypropylene)",
     density |-> Q(90, 100),  pricePerKg |-> Q(210, 100), factor |-> Q(5, 10)],
    [name |-> "PC (Polycarbonate)",
     density |-> Q(120, 100), pricePerKg |-> Q(580, 100), factor |-> Q(12, 10)] >>

MACHINE_RATES == <<
    [size |-> "Small (50-100T)",   ratePerHour |-> Num(45), maxMoldSize |-> Num(300)],
    [size |-> "Medium (100-250T)", ratePerHour |-> Num(65), maxMoldSize |-> Num(550)],
    [size |-> "Large (250-500T)",  ratePerHour |-> Num(90), maxMoldSize |-> Num(900)] >>

MOLD_BASE_MULTIPLIER     == Q(28, 10)
BASE_CYCLE_TIME_S        == 5
THICKNESS_FACTOR         == 4
SCRAP_RATE               == Q(5, 100)
COLOR_PREMIUM_PERCENTAGE == Q(2, 100)

----------------------------------------------------------------------------
(* useQuoteCalculator, App.jsx:39-90 *)

\* Mutant: an unknown materialId falls back to the last catalog entry.
ResolveMaterialLast(materialId) ==
    IF \E k \in 1..Len(MATERIALS) : MATERIALS[k].name = materialId
    THEN MATERIALS[CHOOSE k \in 1..Len(MATERIALS) : MATERIALS[k].name = materialId]
    ELSE MATERIALS[Len(MATERIALS)]

\* MATERIALS.find(m => m.name === materialId) || MATERIALS[0]
ResolveMaterial(materialId) ==
    IF \E k \in 1..Len(MATERIALS) : MATERIALS[k].name = materialId
    THEN MATERIALS[CHOOSE k \in 1..Len(MATERIALS) :
                      /\ MATERIALS[k].name = materialId
                      /\ \A j \in 1..(k - 1) : MATERIALS[j].name # materialId]
    ELSE MATERIALS[1]

\* 1. material calculations
MaterialCostRaw(material, volume) ==
    LET weightG  == Mul(volume, material.density)
        weightKg == Div(weightG, Num(1000))
    IN  Mul(weightKg, material.pricePerKg)

\* Mutant: the premium is charged for a colored part only.
ColorPremiumColoredOnly(material, volume) ==
    IF parameters.color = "natural"
    THEN Num(0)
    ELSE Mul(MaterialCostRaw(material, volume), COLOR_PREMIUM_PERCENTAGE)

ColorPremium(material, volume) ==
    Mul(MaterialCostRaw(material, volume), COLOR_PREMIUM_PERCENTAGE)

TotalMaterialCost(material, volume) ==
    Add(MaterialCostRaw(material, volume), ColorPremium(material, volume))

\* Mutant: the wall thickness does not enter the cycle time.
CycleTimeFlat(wallThickness) == Num(BASE_CYCLE_TIME_S)

\* 2. machine calculations
CycleTime(wallThickness) ==
    Add(Num(BASE_CYCLE_TIME_S), Mul(wallThickness, Num(THICKNESS_FACTOR)))

\* Mutant: the parts of a minute are taken for the parts of an hour.
PartsPerMinute(wallThickness, cavities) ==
    Mul(Div(Num(60), CycleTime(wallThickness)), cavities)

PartsPerHour(wallThickness, cavities) ==
    LET partsPerShot   == cavities
        partsPerMinute == Mul(Div(Num(60), CycleTime(wallThickness)), partsPerShot)
    IN  Mul(partsPerMinute, Num(60))

\* 3. mold and machine selection
MoldSizeMM(dimensions) ==
    Mul(MathMax(dimensions.length, dimensions.width), MOLD_BASE_MULTIPLIER)

\* Mutant: a mold exactly as large as a tier's limit does not fit the tier.
RecommendedMachineStrict(moldSizeMM) ==
    IF \E k \in 1..Len(MACHINE_RATES) : Lt(moldSizeMM, MACHINE_RATES[k].maxMoldSize)
    THEN MACHINE_RATES[CHOOSE k \in 1..Len(MACHINE_RATES) :
            /\ Lt(moldSizeMM, MACHINE_RATES[k].maxMoldSize)
            /\ \A j \in 1..(k - 1) : ~Lt(moldSizeMM, MACHINE_RATES[j].maxMoldSize)]
    ELSE MACHINE_RATES[Len(MACHINE_RATES)]

\* MACHINE_RATES.find(m => moldSizeMM <= m.maxMoldSize)
\*   || MACHINE_RATES[MACHINE_RATES.length - 1]
RecommendedMachine(moldSizeMM) ==
    IF \E k \in 1..Len(MACHINE_RATES) : Leq(moldSizeMM, MACHINE_RATES[k].maxMoldSize)
    THEN MACHINE_RATES[CHOOSE k \in 1..Len(MACHINE_RATES) :
            /\ Leq(moldSizeMM, MACHINE_RATES[k].maxMoldSize)
            /\ \A j \in 1..(k - 1) : ~Leq(moldSizeMM, MACHINE_RATES[j].maxMoldSize)]
    ELSE MACHINE_RATES[Len(MACHINE_RATES)]

MachineCostPerPart(machine, partsPerHour) == Div(machine.ratePerHour, partsPerHour)

\* 4. mold amortization
MoldEstimate(machine) == Add(Num(10000), Mul(machine.ratePerHour, Num(100)))

\* Mutant: the mold estimate is not amortized over the run.
MoldCostNotAmortized(machine, quantity) == MoldEstimate(machine)

MoldCostPerPart(machine, quantity) == Div(MoldEstimate(machine), quantity)

\* 5. final cost aggregation
CostBeforeScrap(totalMaterialCost, machineCostPerPart, moldCostPerPart) ==
    Add(Add(totalMaterialCost, machineCostPerPart), moldCostPerPart)

ScrapCostPerPart(costBeforeScrap) == Mul(costBeforeScrap, SCRAP_RATE)

\* Mutant: the scrap rate is added instead of applied.
TotalPerPartAdded(costBeforeScrap) == Add(costBeforeScrap, SCRAP_RATE)

TotalPerPart(costBeforeScrap) == Mul(costBeforeScrap, Add(Num(1), SCRAP_RATE))

\* Mutant: the run is one part short.
TotalQuoteShort(totalPerPart, quantity) == Mul(totalPerPart, Sub(quantity, Num(1)))

TotalQuote(totalPerPart, quantity) == Mul(totalPerPart, quantity)

\* if (!analysisData.volume || quantity <= 0 || cavities <= 0) return null;
NotComputable(p, a) ==
    \/ Falsy(a.volume)
    \/ Leq(p.quantity, Num(0))
    \/ Leq(p.cavities, Num(0))

\* The callback of useMemo: null, or the breakdown.
Quote(p, a) ==
    IF NotComputable(p, a) THEN Null
    ELSE LET material    == ResolveMaterial(p.materialId)
             machine     == RecommendedMachine(MoldSizeMM(a.dimensions))
             partsPerHr  == PartsPerHour(a.wallThickness, p.cavities)
             materialC   == TotalMaterialCost(material, a.volume)
             machineC    == MachineCostPerPart(machine, partsPerHr)
             moldC       == MoldCostPerPart(machine, p.quantity)
             beforeScrap == CostBeforeScrap(materialC, machineC, moldC)
             perPart     == TotalPerPart(beforeScrap)
         IN  [kind               |-> "breakdown",
              materialCost       |-> materialC,
              machineCost        |-> machineC,
              moldCost           |-> moldC,
              colorPremium       |-> ColorPremium(material, a.volume),
              scrapCost          |-> ScrapCostPerPart(beforeScrap),
              totalPerPart       |-> perPart,
              cycleTime          |-> CycleTime(a.wallThickness),
              partsPerHour       |-> partsPerHr,
              recommendedMachine |-> machine.size,
              totalQuote         |-> TotalQuote(perPart, p.quantity)]

\* Mutant: the quantity is missing from the dependency list.
MemoDepsWithoutQuantity(p, a) ==
    LET material == ResolveMaterial(p.materialId)
    IN  <<a.volume, a.wallThickness, material.density, material.pricePerKg,
          p.cavities, material.name, material.factor, p.materialId, a>>

\* The dependency list of useMemo, App.jsx:87.
MemoDeps(p, a) ==
    LET material == ResolveMaterial(p.materialId)
    IN  <<a.volume, a.wallThickness, material.density, material.pricePerKg,
          p.quantity, p.cavities, material.name, material.factor, p.materialId, a>>

\* The empty useMemo cell of a hook that has not rendered yet.
NoMemo == [deps |-> <<>>, value |-> Null]

\* One call of the hook with the useMemo cell m: the cell after the call.  The
\* callback runs on the first render and whenever a dependency has changed.
UseMemo(m, p, a) ==
    IF m.deps = MemoDeps(p, a) THEN m
    ELSE [deps |-> MemoDeps(p, a), value |-> Quote(p, a)]

\* `const { volume, wallThickness, dimensions } = analysisData` throws on an
\* analysisData that is undefined or null, before useMemo is reached.
HookThrows(a) == a = Undefined \/ a = Null

\* Mutant: a cell that holds a value is never recomputed.
MemoAfterKeep(m, p, a) ==
    IF HookThrows(a) THEN m
    ELSE IF m = NoMemo THEN UseMemo(m, p, a)
    ELSE m

\* The useMemo cell that a call of the hook with the cell m leaves behind.
MemoAfter(m, p, a) == IF HookThrows(a) THEN m ELSE UseMemo(m, p, a)

\* `return quote`: what the call returns, given the cell m it left behind.
HookResult(m, a) == IF HookThrows(a) THEN TypeError ELSE m.value

\* What useQuoteCalculator(parameters, analysisData) returns on a cell m.
useQuoteCalculator(m, p, a) == HookResult(MemoAfter(m, p, a), a)

----------------------------------------------------------------------------
(* The /api/analyze endpoint, API/analyze.js *)

\* The job id that startForgeAnalysisJob draws, API/analyze.js:29-53.
JobIds == {"job-1", "job-2"}

\* handler(req, res): the response to a request with the method `method` and
\* the uploaded file `file` (null when the form has none); parseFails says
\* that parseMultipartForm rejected.
AnalyzeHandler(method, file, parseFails, jobId) ==
    IF method = "OPTIONS" THEN [status |-> 200, body |-> Undefined]
    ELSE IF method # "POST"
    THEN [status |-> 405, body |-> [message |-> "Method Not Allowed"]]
    ELSE IF parseFails
    THEN [status |-> 500,
          body |-> [message |-> "Failed to submit analysis job to Forge.",
                    error |-> "parse error"]]
    ELSE IF file = Null
    THEN [status |-> 400, body |-> [message |-> "No CAD file uploaded."]]
    ELSE [status |-> 202,
          body |-> [message |-> "Analysis job submitted. Waiting for Forge webhook callback.",
                    jobId |-> jobId,
                    status |-> "submitted"]]

\* response.ok
ResponseOk(response) == response.status >= 200 /\ response.status <= 299

\* result.analysisData: undefined when the body has no such property
AnalysisDataOf(body) ==
    IF "analysisData" \in DOMAIN body THEN body.analysisData ELSE Undefined

\* geometryResult, the geometry that the webhook stores for a successful
\* job (forge-webhook.js:33-38).
GeometryResult ==
    [volume |-> Q(18735, 100),
     dimensions |-> [length |-> Num(65), width |-> Num(42), height |-> Num(75)],
     wallThickness |-> Q(18, 10),
     accuracy |-> "high"]

----------------------------------------------------------------------------
(* The webhook and the poll endpoint, API/forge-webhook.js and               *)
(* api/poll-status.js.  Both run in one Node process and share `global`.     *)

\* The job ids a webhook payload can carry; "" is a payload without one
\* (payload?.context?.jobId is undefined or empty).
WebhookJobIds == JobIds \cup {""}

\* The bodies of the webhook requests: undefined, or a notification with the
\* job id and the status of the translation job.
WebhookBodies ==
    {Undefined} \cup [jobId : WebhookJobIds, status : {"success", "failed"}]

\* Mutant: every result is stored under the key of a payload without job id.
StorageKeyShared(webhookData) == "unknown_job"

\* `webhookData.payload?.context?.jobId || 'unknown_job'` (forge-webhook.js:22)
StorageKey(webhookData) ==
    IF webhookData.jobId = "" THEN "unknown_job" ELSE webhookData.jobId

\* `MOCK_STORAGE[jobId] = ...` on `global.MOCK_STORAGE || {}`
StorageWith(storage, key, record) ==
    [k \in DOMAIN storage \cup {key} |-> IF k = key THEN record ELSE storage[k]]

\* handler(req, res) of forge-webhook.js: the status of the response and
\* global.MOCK_STORAGE after the request.
WebhookHandler(method, webhookData, storage) ==
    IF method = "OPTIONS" THEN [status |-> 200, storage |-> storage]
    ELSE IF method # "POST" THEN [status |-> 405, storage |-> storage]
    ELSE IF webhookData = Undefined THEN [status |-> 500, storage |-> storage]
    ELSE IF webhookData.status = "success"
    THEN [status |-> 204,
          storage |-> StorageWith(storage, StorageKey(webhookData),
                         [status |-> "complete", analysisData |-> GeometryResult])]
    ELSE [status |-> 204,
          storage |-> StorageWith(storage, StorageKey(webhookData),
                         [status |-> "failed", analysisData |-> Null])]

\* handler(req, res) of poll-status.js for the query parameter jobId ("" when
\* it is missing): the response and global.MOCK_STORAGE after the request.
PollHandler(method, jobId, storage) ==
    IF method = "OPTIONS"
    THEN [status |-> 200, body |-> Undefined, storage |-> storage]
    ELSE IF method # "GET"
    THEN [status |-> 405, body |-> [message |-> "Method Not Allowed"],
          storage |-> storage]
    ELSE IF jobId = ""
    THEN [status |-> 400, body |-> [message |-> "Missing jobId query parameter."],
          storage |-> storage]
    ELSE IF jobId \in DOMAIN storage
    THEN [status |-> 200, body |-> storage[jobId], storage |-> storage]
    ELSE [status |-> 200,
          body |-> [status |-> "in-progress", analysisData |-> Null],
          storage |-> storage]

----------------------------------------------------------------------------
(* The App component, App.jsx:93-307 *)

\* The keys of global.MOCK_STORAGE: the job ids and the key of a webhook
\* without a job id (forge-webhook.js:22).
JobKeys == JobIds \cup {"unknown_job"}

\* No statement of the callback is being stepped through.
IdleCallback ==
    /\ pc = "idle"
    /\ locals = <<>>

\* The serverless functions have served no request.
NoJobs ==
    /\ MOCK_STORAGE = <<>>
    /\ submitted = {}
    /\ webhooks = [j \in WebhookJobIds |-> "none"]
    /\ reported = [j \in JobIds |-> "none"]

MaxEdits == 1
MaxSaves == 1

\* The files a user picks.
Files == {"part.stl", "Bracket.STEP"}

\* name.split('.').pop().toLowerCase()
ExtensionOf(name) ==
    CASE name = "part.stl"     -> "stl"
      [] name = "Bracket.STEP" -> "step"

\* The geometry of useState and of the reset in analyzeFile (App.jsx:108, 255).
EmptyAnalysisData ==
    [volume |-> Num(0),
     dimensions |-> [length |-> Num(0), width |-> Num(0), height |-> Num(0)],
     wallThickness |-> Num(0),
     accuracy |-> "none"]

\* Mutant: the catch branch leaves the reset geometry in place.
MockAnalysisDataWithoutVolume ==
    [volume |-> Num(0),
     dimensions |-> [length |-> Num(60), width |-> Num(50), height |-> Num(60)],
     wallThickness |-> Num(2),
     surfaceArea |-> Num(200),
     accuracy |-> "mocked"]

\* The placeholder geometry of the catch branch (App.jsx:282).
MockAnalysisData ==
    [volume |-> Num(175),
     dimensions |-> [length |-> Num(60), width |-> Num(50), height |-> Num(60)],
     wallThickness |-> Num(2),
     surfaceArea |-> Num(200),
     accuracy |-> "mocked"]

\* useState of parameters (App.jsx:115).
InitialParameters ==
    [materialId |-> MATERIALS[1].name,
     quantity |-> Num(1000),
     cavities |-> Num(1),
     color |-> "natural"]

DatabaseDisabledMessage ==
    Str("Database disabled. Replace 'firebaseConfig' in App.jsx to enable saving/history.")
CannotSaveMessage ==
    Str("Cannot save: Database, Analysis, or File Name missing.")
\* `File processing failed: ${message}. Using mock data for UI.`
ProcessingFailedMessage(message) ==
    [kind |-> "string",
     value |-> "File processing failed: ${error.message}. Using mock data for UI.",
     message |-> message]
\* `Failed to save quote: ${error.message}`
SaveFailedMessage == Str("Failed to save quote")
DeleteFailedMessage == Str("Failed to delete quote")

\* The render has not thrown: the component tree is mounted.
Mounted == quoteResults # TypeError

\* showResults (App.jsx:307)
ShowResults == Gt(analysisData.volume, Num(0)) /\ ~isLoading

\* The render that follows a state change: the hook is called with the new
\* parameters p and the new analysisData a.
Render(p, a) ==
    /\ memo' = MemoAfter(memo, p, a)
    /\ quoteResults' = HookResult(memo', a)

\* The state after the first render and the initialization effect
\* (App.jsx:94-171).  The build's firebaseConfig is null; a deployment that
\* enables the history replaces it (App.jsx:9-14).
Init ==
    /\ firebaseConfig \in {Null, Str("config")}
    /\ parameters = InitialParameters
    /\ analysisData = EmptyAnalysisData
    /\ fileName = Null
    /\ fileExtension = Null
    /\ isLoading = FALSE
    /\ isHistoryOpen = FALSE
    /\ errorMessage = IF FalsyValue(firebaseConfig) THEN DatabaseDisabledMessage ELSE Null
    /\ db = IF FalsyValue(firebaseConfig) THEN Null ELSE Str("firestore")
    /\ userId = Null
    /\ isAuthReady = FalsyValue(firebaseConfig)
    /\ quoteHistory = <<>>
    /\ memo = MemoAfter(NoMemo, parameters, analysisData)
    /\ quoteResults = HookResult(memo, analysisData)
    /\ store = {}
    /\ request = Null
    /\ geometryOf = Null
    /\ edits = 0
    /\ saves = 0
    /\ IdleCallback
    /\ NoJobs

\* onAuthStateChanged (App.jsx:156-164): the sign-in ended, with a user or
\* without one.
OnAuthStateChanged ==
    /\ Mounted /\ db # Null /\ ~isAuthReady
    /\ \E user \in {Null, Str("uid-1")} : userId' = user
    /\ isAuthReady' = TRUE
    /\ UNCHANGED <<calcVars, uiVars, db, quoteHistory, firebaseConfig, store, envVars>>
    /\ UNCHANGED <<stepVars, jobVars>>

\* The documents of the collection, newest first (App.jsx:186).
RECURSIVE NewestFirst(_)
NewestFirst(docs) ==
    IF docs = {} THEN <<>>
    ELSE LET newest == CHOOSE x \in docs : \A y \in docs : y.createdAt <= x.createdAt
         IN  <<newest>> \o NewestFirst(docs \ {newest})

\* onSnapshot (App.jsx:179-188): the listener delivers the collection.
OnSnapshot ==
    /\ Mounted /\ db # Null /\ userId # Null
    /\ quoteHistory # NewestFirst(store)
    /\ quoteHistory' = NewestFirst(store)
    /\ UNCHANGED <<calcVars, uiVars, db, userId, isAuthReady, firebaseConfig, store, envVars>>
    /\ UNCHANGED <<stepVars, jobVars>>

\* The save button is rendered and enabled (App.jsx:632-640).
SaveButtonEnabled ==
    /\ Mounted
    /\ quoteResults # Null /\ ShowResults
    /\ isAuthReady /\ ~FalsyValue(fileName)

\* saveCurrentQuote, the early return (App.jsx:200-203).
SaveCurrentQuoteRefused ==
    /\ SaveButtonEnabled
    /\ db = Null \/ userId = Null \/ quoteResults = Null \/ FalsyValue(fileName)
    /\ errorMessage' = CannotSaveMessage
    /\ UNCHANGED <<calcVars, fileName, fileExtension, isLoading, isHistoryOpen,
                   fireVars, envVars>>
    /\ UNCHANGED <<stepVars, jobVars>>

\* Mutant: saveCurrentQuote without its early return.
SaveCurrentQuoteUnguarded ==
    /\ SaveButtonEnabled
    /\ saves < MaxSaves
    /\ store' = store \cup
          {[id |-> saves + 1,
            fileName |-> fileName,
            fileExtension |-> fileExtension,
            createdAt |-> saves + 1,
            analysisData |-> analysisData,
            parameters |-> parameters,
            quoteResults |-> quoteResults,
            materialName |-> parameters.materialId]}
    /\ saves' = saves + 1
    /\ errorMessage' = Null
    /\ UNCHANGED <<calcVars, fileName, fileExtension, isLoading, isHistoryOpen,
                   db, userId, isAuthReady, quoteHistory, firebaseConfig,
                   request, geometryOf, edits>>
    /\ UNCHANGED <<stepVars, jobVars>>

\* saveCurrentQuote, addDoc resolves (App.jsx:205-219).
SaveCurrentQuoteStored ==
    /\ SaveButtonEnabled
    /\ ~(db = Null \/ userId = Null \/ quoteResults = Null \/ FalsyValue(fileName))
    /\ saves < MaxSaves
    /\ store' = store \cup
          {[id |-> saves + 1,
            fileName |-> fileName,
            fileExtension |-> fileExtension,
            createdAt |-> saves + 1,
            analysisData |-> analysisData,
            parameters |-> parameters,
            quoteResults |-> quoteResults,
            materialName |-> parameters.materialId]}
    /\ saves' = saves + 1
    /\ errorMessage' = Null
    /\ UNCHANGED <<calcVars, fileName, fileExtension, isLoading, isHistoryOpen,
                   db, userId, isAuthReady, quoteHistory, firebaseConfig,
                   request, geometryOf, edits>>
    /\ UNCHANGED <<stepVars, jobVars>>

\* saveCurrentQuote, addDoc rejects (App.jsx:220-223).
SaveCurrentQuoteFails ==
    /\ SaveButtonEnabled
    /\ ~(db = Null \/ userId = Null \/ quoteResults = Null \/ FalsyValue(fileName))
    /\ errorMessage' = SaveFailedMessage
    /\ UNCHANGED <<calcVars, fileName, fileExtension, isLoading, isHistoryOpen,
                   fireVars, envVars>>
    /\ UNCHANGED <<stepVars, jobVars>>

\* deleteQuote(quote.id), deleteDoc resolves (App.jsx:227-234); the button is
\* in the open history panel.
DeleteQuote ==
    /\ Mounted /\ isHistoryOpen
    /\ \E k \in 1..Len(quoteHistory) :
          /\ db # Null /\ userId # Null
          /\ store' = {x \in store : x.id # quoteHistory[k].id}
    /\ errorMessage' = Null
    /\ UNCHANGED <<calcVars, fileName, fileExtension, isLoading, isHistoryOpen,
                   db, userId, isAuthReady, quoteHistory, firebaseConfig, envVars>>
    /\ UNCHANGED <<stepVars, jobVars>>

\* deleteQuote(quote.id), deleteDoc rejects (App.jsx:235-238).
DeleteQuoteFails ==
    /\ Mounted /\ isHistoryOpen
    /\ Len(quoteHistory) > 0
    /\ db # Null /\ userId # Null
    /\ errorMessage' = DeleteFailedMessage
    /\ UNCHANGED <<calcVars, fileName, fileExtension, isLoading, isHistoryOpen,
                   fireVars, envVars>>
    /\ UNCHANGED <<stepVars, jobVars>>

\* loadQuote(quote) for a quote of the open history panel (App.jsx:242-248).
LoadQuote ==
    /\ Mounted /\ isHistoryOpen
    /\ \E k \in 1..Len(quoteHistory) :
          LET quote == quoteHistory[k]
          IN  /\ fileName' = quote.fileName
              /\ fileExtension' = quote.fileExtension
              /\ analysisData' = quote.analysisData
              /\ parameters' = quote.parameters
              /\ geometryOf' = quote.fileName
              /\ Render(quote.parameters, quote.analysisData)
    /\ isHistoryOpen' = FALSE
    /\ UNCHANGED <<isLoading, errorMessage, fireVars, request, edits, saves>>
    /\ UNCHANGED <<stepVars, jobVars>>

\* The history button (App.jsx:437).
ToggleHistory ==
    /\ Mounted
    /\ isHistoryOpen' = ~isHistoryOpen
    /\ UNCHANGED <<calcVars, fileName, fileExtension, isLoading, errorMessage,
                   fireVars, envVars>>
    /\ UNCHANGED <<stepVars, jobVars>>

\* handleFileUpload and analyzeFile up to its fetch (App.jsx:252-265,
\* 289-300); the file input is disabled while isLoading (App.jsx:489).
HandleFileUpload ==
    /\ Mounted /\ ~isLoading
    /\ \E name \in Files :
          /\ fileName' = Str(name)
          /\ fileExtension' = Str(ExtensionOf(name))
          /\ request' = [method |-> "POST", file |-> Str(name)]
          /\ geometryOf' = Str(name)
    /\ errorMessage' = Null
    /\ isLoading' = TRUE
    /\ analysisData' = EmptyAnalysisData
    /\ Render(parameters, EmptyAnalysisData)
    /\ UNCHANGED <<parameters, isHistoryOpen, fireVars, edits, saves>>
    /\ UNCHANGED <<stepVars, jobVars>>

\* analyzeFile after a response with response.ok (App.jsx:276-277, 285).
AnalyzeFileResponseOk ==
    /\ request # Null
    /\ \E parseFails \in BOOLEAN, jobId \in JobIds :
          LET response == AnalyzeHandler(request.method, request.file, parseFails, jobId)
          IN  /\ ResponseOk(response)
              /\ analysisData' = AnalysisDataOf(response.body)
              /\ Render(parameters, AnalysisDataOf(response.body))
    /\ geometryOf' = request.file
    /\ isLoading' = FALSE
    /\ request' = Null
    /\ UNCHANGED <<parameters, fileName, fileExtension, errorMessage, isHistoryOpen,
                   fireVars, edits, saves>>
    /\ UNCHANGED <<stepVars, jobVars>>

\* What `error.message` is in the catch branch after the response.
FailureMessage(response) ==
    IF "message" \in DOMAIN response.body /\ response.body.message # ""
    THEN response.body.message
    ELSE "API analysis failed with status"

\* analyzeFile after a rejected fetch or a response that is not ok
\* (App.jsx:267-274, 279-286).
AnalyzeFileFails ==
    /\ request # Null
    /\ \/ errorMessage' = ProcessingFailedMessage("Failed to fetch")
       \/ \E parseFails \in BOOLEAN, jobId \in JobIds :
             LET response == AnalyzeHandler(request.method, request.file, parseFails, jobId)
             IN  /\ ~ResponseOk(response)
                 /\ errorMessage' = ProcessingFailedMessage(FailureMessage(response))
    /\ analysisData' = MockAnalysisData
    /\ Render(parameters, MockAnalysisData)
    /\ geometryOf' = request.file
    /\ isLoading' = FALSE
    /\ request' = Null
    /\ UNCHANGED <<parameters, fileName, fileExtension, isHistoryOpen,
                   fireVars, edits, saves>>
    /\ UNCHANGED <<stepVars, jobVars>>

\* handleParameterChange(key, value) (App.jsx:302-304)
HandleParameterChange(key, value) ==
    /\ Mounted
    /\ edits < MaxEdits
    /\ edits' = edits + 1
    /\ parameters' = [parameters EXCEPT ![key] = value]
    /\ Render([parameters EXCEPT ![key] = value], analysisData)
    /\ UNCHANGED <<analysisData, uiVars, fireVars, request, geometryOf, saves>>
    /\ UNCHANGED <<stepVars, jobVars>>

\* What parseInt makes of the text of the quantity input.
ParsedQuantities == {NaN, Num(50), Num(200)}

\* Mutant: the parsed text is taken as it is.
OrZeroKeep(x) == x

\* x || 0 for a number x
OrZero(x) == IF Falsy(x) THEN Num(0) ELSE x

\* The material select (App.jsx:535-543).
ChangeMaterial ==
    \E k \in 1..Len(MATERIALS) : HandleParameterChange("materialId", MATERIALS[k].name)

\* The quantity input (App.jsx:549-556).
ChangeQuantity ==
    \E parsed \in ParsedQuantities :
        HandleParameterChange("quantity", MathMax(Num(100), OrZero(parsed)))

\* The cavities select (App.jsx:562-570).
ChangeCavities ==
    \E c \in {1, 2, 4, 8} : HandleParameterChange("cavities", Num(c))

\* The color select (App.jsx:576-584).
ChangeColor ==
    \E c \in {"natural", "black", "custom"} : HandleParameterChange("color", c)

Next ==
    \/ OnAuthStateChanged
    \/ OnSnapshot
    \/ SaveCurrentQuoteRefused
    \/ SaveCurrentQuoteStored
    \/ SaveCurrentQuoteFails
    \/ DeleteQuote
    \/ DeleteQuoteFails
    \/ LoadQuote
    \/ ToggleHistory
    \/ HandleFileUpload
    \/ AnalyzeFileResponseOk
    \/ AnalyzeFileFails
    \/ ChangeMaterial
    \/ ChangeQuantity
    \/ ChangeCavities
    \/ ChangeColor

Spec == Init /\ [][Next]_vars

----------------------------------------------------------------------------
(* The calculator on its own: the inputs are drawn from bounded sets, and  *)
(* every step changes one input and calls the hook again, as a render      *)
(* after a state change does (App.jsx:122).                                *)

MaxVolume        == 1
MaxWallThickness == 2
MaxQuantity      == 2
MaxCavities      == 2

\* volume <= 0 and volume > 0
VolumeInputs == {Num(-1000), Num(0)} \cup {Num(1000 * v) : v \in 1..MaxVolume}

\* cycle time negative (-2), zero (-5/4) and positive
WallThicknessInputs ==
    {Num(-2), Q(-5, 4)} \cup {Num(w) : w \in 1..MaxWallThickness}

\* Mold sizes 168 (Small), 168 with a height above every tier, 336 (Medium,
\* the width the larger side), 300 (exactly the Small tier's limit),
\* 560 (Large) and 924 (above every tier).
DimensionsInputs ==
    { [length |-> Num(60),    width |-> Num(50),  height |-> Num(10)],
      [length |-> Num(60),    width |-> Num(50),  height |-> Num(1000)],
      [length |-> Num(50),    width |-> Num(120), height |-> Num(10)],
      [length |-> Q(750, 7),  width |-> Num(50),  height |-> Num(10)],
      [length |-> Num(200),   width |-> Num(50),  height |-> Num(10)],
      [length |-> Num(330),   width |-> Num(50),  height |-> Num(10)] }

\* every catalog name, and a name that matches none of them exactly
MaterialIdInputs ==
    {MATERIALS[k].name : k \in 1..Len(MATERIALS)} \cup {"pp (polypropylene)"}

QuantityInputs == {Num(-100), Num(0)} \cup {Num(100 * q) : q \in 1..MaxQuantity}

CavitiesInputs == {Num(-1), Num(0)} \cup {Num(c) : c \in 1..MaxCavities}

ParametersInputs ==
    [materialId : MaterialIdInputs, quantity : QuantityInputs,
     cavities : CavitiesInputs, color : {"natural"}]

AnalysisDataInputs ==
    [volume : VolumeInputs, dimensions : DimensionsInputs,
     wallThickness : WallThicknessInputs, accuracy : {"high"}]

\* The inputs are chosen; the hook has not been called.
CalcInit ==
    /\ parameters \in ParametersInputs
    /\ analysisData \in AnalysisDataInputs
    /\ memo = NoMemo
    /\ quoteResults = Undefined
    /\ fileName = Null
    /\ fileExtension = Null
    /\ isLoading = FALSE
    /\ errorMessage = Null
    /\ isHistoryOpen = FALSE
    /\ db = Null
    /\ userId = Null
    /\ isAuthReady = FALSE
    /\ quoteHistory = <<>>
    /\ firebaseConfig = Null
    /\ store = {}
    /\ request = Null
    /\ geometryOf = Null
    /\ edits = 0
    /\ saves = 0
    /\ IdleCallback
    /\ NoJobs

\* The hook is called with the inputs p and a.
Evaluate(p, a) ==
    /\ parameters' = p
    /\ analysisData' = a
    /\ Render(p, a)
    /\ UNCHANGED <<uiVars, fireVars, envVars>>
    /\ UNCHANGED <<stepVars, jobVars>>

\* The first call of the hook.
FirstRender ==
    /\ quoteResults = Undefined
    /\ Evaluate(parameters, analysisData)

\* The hook has been called.
Rendered == quoteResults # Undefined

SetVolume ==
    /\ Rendered
    /\ \E v \in VolumeInputs \ {analysisData.volume} :
        Evaluate(parameters, [analysisData EXCEPT !.volume = v])

SetWallThickness ==
    /\ Rendered
    /\ \E w \in WallThicknessInputs \ {analysisData.wallThickness} :
        Evaluate(parameters, [analysisData EXCEPT !.wallThickness = w])

SetDimensions ==
    /\ Rendered
    /\ \E d \in DimensionsInputs \ {analysisData.dimensions} :
        Evaluate(parameters, [analysisData EXCEPT !.dimensions = d])

SetMaterialId ==
    /\ Rendered
    /\ \E m \in MaterialIdInputs \ {parameters.materialId} :
        Evaluate([parameters EXCEPT !.materialId = m], analysisData)

SetQuantity ==
    /\ Rendered
    /\ \E q \in QuantityInputs \ {parameters.quantity} :
        Evaluate([parameters EXCEPT !.quantity = q], analysisData)

SetCavities ==
    /\ Rendered
    /\ \E c \in CavitiesInputs \ {parameters.cavities} :
        Evaluate([parameters EXCEPT !.cavities = c], analysisData)

CalcNext ==
    \/ FirstRender
    \/ SetVolume
    \/ SetWallThickness
    \/ SetDimensions
    \/ SetMaterialId
    \/ SetQuantity
    \/ SetCavities

CalcSpec == CalcInit /\ [][CalcNext]_vars

----------------------------------------------------------------------------
(* The useMemo callback, section by section (App.jsx:45-67): the guard and   *)
(* the constants of sections 1 to 4, assigned in source order.               *)

StageVolumeInputs == {GeometryResult.volume, MockAnalysisData.volume, Num(0)}
StageWallThicknessInputs == {GeometryResult.wallThickness, MockAnalysisData.wallThickness}
StageDimensionsInputs ==
    {GeometryResult.dimensions, MockAnalysisData.dimensions,
     [length |-> Num(42), width |-> Num(200), height |-> Num(75)]}
StageParametersInputs ==
    [materialId : {MATERIALS[1].name, MATERIALS[3].name},
     quantity : {Num(1000), Num(100)},
     cavities : {Num(1), Num(2)},
     color : {"natural"}]
StageAnalysisDataInputs ==
    [volume : StageVolumeInputs,
     dimensions : StageDimensionsInputs,
     wallThickness : StageWallThicknessInputs,
     accuracy : {"high"}]

\* The callback is entered with the inputs of the hook.
StageInit ==
    /\ parameters \in StageParametersInputs
    /\ analysisData \in StageAnalysisDataInputs
    /\ memo = NoMemo
    /\ quoteResults = Undefined
    /\ fileName = Null
    /\ fileExtension = Null
    /\ isLoading = FALSE
    /\ errorMessage = Null
    /\ isHistoryOpen = FALSE
    /\ db = Null
    /\ userId = Null
    /\ isAuthReady = FALSE
    /\ quoteHistory = <<>>
    /\ firebaseConfig = Null
    /\ store = {}
    /\ request = Null
    /\ geometryOf = Null
    /\ edits = 0
    /\ saves = 0
    /\ pc = "guard"
    /\ locals = [material |-> ResolveMaterial(parameters.materialId)]
    /\ NoJobs

\* What a section leaves alone.
StageFrame ==
    UNCHANGED <<parameters, analysisData, memo, uiVars, fireVars, envVars, jobVars>>

\* `if (!analysisData.volume || quantity <= 0 || cavities <= 0) return null`
\* (App.jsx:45)
StageGuard ==
    /\ pc = "guard"
    /\ IF NotComputable(parameters, analysisData)
       THEN pc' = "returned" /\ quoteResults' = Null
       ELSE pc' = "material" /\ UNCHANGED quoteResults
    /\ UNCHANGED locals
    /\ StageFrame

\* 1. MATERIAL CALCULATIONS (App.jsx:47-52)
StageMaterial ==
    /\ pc = "material"
    /\ locals' = locals @@
          [materialCostRaw |-> MaterialCostRaw(locals.material, analysisData.volume),
           colorPremium |-> ColorPremium(locals.material, analysisData.volume),
           totalMaterialCost |-> TotalMaterialCost(locals.material, analysisData.volume)]
    /\ pc' = "machine"
    /\ UNCHANGED quoteResults
    /\ StageFrame

\* 2. MACHINE CALCULATIONS (App.jsx:54-58)
StageMachine ==
    /\ pc = "machine"
    /\ locals' = locals @@
          [cycleTime |-> CycleTime(analysisData.wallThickness),
           partsPerHour |-> PartsPerHour(analysisData.wallThickness, parameters.cavities)]
    /\ pc' = "selection"
    /\ UNCHANGED quoteResults
    /\ StageFrame

\* 3. MOLD & MACHINE SELECTION (App.jsx:60-63)
StageSelection ==
    /\ pc = "selection"
    /\ LET moldSizeMM == MoldSizeMM(analysisData.dimensions)
           recommendedMachine == RecommendedMachine(moldSizeMM)
       IN  locals' = locals @@
              [moldSizeMM |-> moldSizeMM,
               recommendedMachine |-> recommendedMachine,
               machineCostPerPart |->
                   MachineCostPerPart(recommendedMachine, locals.partsPerHour)]
    /\ pc' = "amortization"
    /\ UNCHANGED quoteResults
    /\ StageFrame

\* 4. MOLD AMORTIZATION (App.jsx:65-67)
StageAmortization ==
    /\ pc = "amortization"
    /\ locals' = locals @@
          [moldEstimate |-> MoldEstimate(locals.recommendedMachine),
           moldCostPerPart |->
               MoldCostPerPart(locals.recommendedMachine, parameters.quantity)]
    /\ pc' = "aggregation"
    /\ UNCHANGED quoteResults
    /\ StageFrame

StageNext ==
    \/ StageGuard
    \/ StageMaterial
    \/ StageMachine
    \/ StageSelection
    \/ StageAmortization

StageSpec == StageInit /\ [][StageNext]_vars

----------------------------------------------------------------------------
(* The serverless functions on their own: jobs are submitted, webhooks       *)
(* arrive and the client polls, in any order.                                *)

JobInit ==
    /\ parameters = InitialParameters
    /\ analysisData = EmptyAnalysisData
    /\ memo = NoMemo
    /\ quoteResults = Undefined
    /\ fileName = Null
    /\ fileExtension = Null
    /\ isLoading = FALSE
    /\ errorMessage = Null
    /\ isHistoryOpen = FALSE
    /\ db = Null
    /\ userId = Null
    /\ isAuthReady = FALSE
    /\ quoteHistory = <<>>
    /\ firebaseConfig = Null
    /\ store = {}
    /\ request = Null
    /\ geometryOf = Null
    /\ edits = 0
    /\ saves = 0
    /\ IdleCallback
    /\ NoJobs

JobFrame == UNCHANGED <<calcVars, uiVars, fireVars, envVars, stepVars>>

\* POST /api/analyze with a file: the job id of the 202 reply is new.
SubmitJob ==
    /\ \E name \in Files, jobId \in JobIds \ submitted :
          LET response == AnalyzeHandler("POST", Str(name), FALSE, jobId)
          IN  /\ response.status = 202
              /\ submitted' = submitted \cup {response.body.jobId}
    /\ UNCHANGED <<MOCK_STORAGE, webhooks, reported>>
    /\ JobFrame

\* A request to /api/forge-webhook: a notification for a submitted job or
\* one without a job id, or a request the handler rejects.
ReceiveWebhook ==
    /\ \E method \in {"POST", "GET"}, webhookData \in WebhookBodies :
          /\ webhookData # Undefined => webhookData.jobId \in submitted \cup {""}
          /\ LET response == WebhookHandler(method, webhookData, MOCK_STORAGE)
             IN  /\ MOCK_STORAGE' = response.storage
                 /\ webhooks' = IF response.status = 204
                                THEN [webhooks EXCEPT ![webhookData.jobId] = webhookData.status]
                                ELSE webhooks
    /\ UNCHANGED <<submitted, reported>>
    /\ JobFrame

\* A request to /api/poll-status for a submitted job.
PollStatus ==
    /\ \E method \in {"GET", "POST"}, jobId \in submitted :
          LET response == PollHandler(method, jobId, MOCK_STORAGE)
          IN  /\ MOCK_STORAGE' = response.storage
              /\ reported' = IF response.status = 200
                             THEN [reported EXCEPT ![jobId] = response.body.status]
                             ELSE reported
    /\ UNCHANGED <<submitted, webhooks>>
    /\ JobFrame

JobNext ==
    \/ SubmitJob
    \/ ReceiveWebhook
    \/ PollStatus

JobSpec == JobInit /\ [][JobNext]_vars

----------------------------------------------------------------------------
(* Properties of the calculator, checked under CalcSpec *)

IsBreakdown(r) == r.kind = "breakdown"

\* The catalog names.
MaterialNames == {MATERIALS[k].name : k \in 1..Len(MATERIALS)}

\* The mold size the text defines: max(length, width) * 2.8.
StatedMoldSize(a) ==
    Mul(MathMax(a.dimensions.length, a.dimensions.width), Q(28, 10))

\* The tiers large enough for the mold of the geometry a.
QualifyingTiers(a) ==
    {k \in 1..Len(MACHINE_RATES) : Leq(StatedMoldSize(a), MACHINE_RATES[k].maxMoldSize)}

\* The raw material cost the text defines for the catalog entry e.
StatedRawMaterialCost(e, a) ==
    Mul(Div(Mul(a.volume, e.density), Num(1000)), e.pricePerKg)

\* C1: useQuoteCalculator never throws, and it returns null exactly when the
\* volume, the quantity or the cavities are zero or negative; for every other
\* input it returns a breakdown.
C1_NullIffNotPositive ==
    Rendered =>
        /\ quoteResults # TypeError
        /\ quoteResults = Null <=>
              \/ Leq(analysisData.volume, Num(0))
              \/ Leq(parameters.quantity, Num(0))
              \/ Leq(parameters.cavities, Num(0))
        /\ quoteResults # Null => IsBreakdown(quoteResults)

\* A Geometry record: volume, dimensions {length, width, height},
\* wallThickness and accuracy.
WellFormedGeometry(a) ==
    /\ {"volume", "dimensions", "wallThickness", "accuracy"} \subseteq DOMAIN a
    /\ {"length", "width", "height"} \subseteq DOMAIN a.dimensions

\* C2: the geometry that analyzeFile stores is a well-formed Geometry record,
\* also after a 2xx response of the analysis endpoint, and the calculator is
\* never called with an absent geometry.
C2_StoredGeometryWellFormed ==
    /\ WellFormedGeometry(analysisData)
    /\ quoteResults # TypeError

C4_MachineTierSelection ==
    Rendered =>
        /\ IsBreakdown(quoteResults) =>
              IF QualifyingTiers(analysisData) = {}
              THEN quoteResults.recommendedMachine
                      = MACHINE_RATES[Len(MACHINE_RATES)].size
              ELSE \E k \in QualifyingTiers(analysisData) :
                      /\ quoteResults.recommendedMachine = MACHINE_RATES[k].size
                      /\ \A j \in QualifyingTiers(analysisData) :
                            Leq(MACHINE_RATES[k].maxMoldSize, MACHINE_RATES[j].maxMoldSize)
        /\ \A d \in DimensionsInputs :
              (/\ d.length = analysisData.dimensions.length
               /\ d.width = analysisData.dimensions.width)
              => Quote(parameters, [analysisData EXCEPT !.dimensions = d]) = quoteResults
        /\ (/\ QualifyingTiers(analysisData) = {}
            /\ Gt(analysisData.volume, Num(0))
            /\ Gt(parameters.quantity, Num(0))
            /\ Gt(parameters.cavities, Num(0)))
           => IsBreakdown(quoteResults)

\* C4 witness: a mold above every tier, quoted on the largest machine.
C4_Witness ==
    /\ IsBreakdown(quoteResults)
    /\ QualifyingTiers(analysisData) = {}
    /\ quoteResults.recommendedMachine = "Large (250-500T)"

\* C5: with volume, quantity and cavities positive, a wall thickness that
\* makes the cycle time zero, negative or unbounded yields "no result"; every
\* breakdown has partsPerHour > 0 and a finite machineCost >= 0.
C5_DegenerateThroughputGuarded ==
    /\ (/\ Rendered
        /\ Gt(analysisData.volume, Num(0))
        /\ Gt(parameters.quantity, Num(0))
        /\ Gt(parameters.cavities, Num(0))
        /\ LET stated == Add(Num(5), Mul(Num(4), analysisData.wallThickness))
           IN  ~IsFinite(stated) \/ Leq(stated, Num(0)))
       => quoteResults = Null
    /\ IsBreakdown(quoteResults) =>
          /\ Gt(quoteResults.partsPerHour, Num(0))
          /\ IsFinite(quoteResults.machineCost)
          /\ Leq(Num(0), quoteResults.machineCost)

\* C6: material resolution never fails; a materialId that is a catalog name
\* uses that entry's density and pricePerKg, and any other materialId gives
\* the breakdown of the first entry's name.
C6_MaterialResolution ==
    /\ quoteResults # TypeError
    /\ IsBreakdown(quoteResults) =>
          IF parameters.materialId \in MaterialNames
          THEN \E k \in 1..Len(MATERIALS) :
                  /\ MATERIALS[k].name = parameters.materialId
                  /\ quoteResults.materialCost
                        = Mul(StatedRawMaterialCost(MATERIALS[k], analysisData),
                              Q(102, 100))
          ELSE quoteResults
                  = Quote([parameters EXCEPT !.materialId = MATERIALS[1].name],
                          analysisData)
    /\ quoteResults = Null =>
          Quote([parameters EXCEPT !.materialId = MATERIALS[1].name], analysisData)
             = Null

\* C6 witness: a breakdown for a materialId that is no catalog name.
C6_Witness ==
    /\ IsBreakdown(quoteResults)
    /\ parameters.materialId \notin MaterialNames
    /\ Gt(quoteResults.materialCost, Num(0))

\* C7: totalQuote is totalPerPart times the quantity of the parameters.
C7_TotalQuoteIsPerPartTimesQuantity ==
    IsBreakdown(quoteResults) =>
        quoteResults.totalQuote = Mul(quoteResults.totalPerPart, parameters.quantity)

\* C7 witness: a breakdown for a run of 200 parts.
C7_Witness ==
    /\ IsBreakdown(quoteResults)
    /\ parameters.quantity = Num(200)
    /\ Gt(quoteResults.totalQuote, quoteResults.totalPerPart)

\* C8: with costBeforeScrap = materialCost + machineCost + moldCost,
\* scrapCost = costBeforeScrap * 0.05 and totalPerPart = costBeforeScrap * 1.05,
\* so totalPerPart - scrapCost = costBeforeScrap; materialCost includes
\* colorPremium.
C8_ScrapAggregation ==
    IsBreakdown(quoteResults) =>
        LET stated == Add(Add(quoteResults.materialCost, quoteResults.machineCost),
                          quoteResults.moldCost)
        IN  /\ quoteResults.scrapCost = Mul(stated, Q(5, 100))
            /\ quoteResults.totalPerPart = Mul(stated, Q(105, 100))
            /\ Sub(quoteResults.totalPerPart, quoteResults.scrapCost) = stated
            /\ Sub(quoteResults.materialCost, quoteResults.colorPremium)
                  = StatedRawMaterialCost(ResolveMaterial(parameters.materialId),
                                          analysisData)

\* C8 witness: a breakdown with a positive scrap cost.
C8_Witness ==
    /\ IsBreakdown(quoteResults)
    /\ Gt(quoteResults.scrapCost, Num(0))
    /\ Gt(quoteResults.colorPremium, Num(0))

\* The breakdown for the current inputs with the quantity q instead.
WithQuantity(q) == Quote([parameters EXCEPT !.quantity = q], analysisData)

\* C9: for positive quantities q1 < q2 and everything else equal, the
\* breakdown for q2 has a strictly smaller moldCost and the same materialCost,
\* machineCost, colorPremium, cycleTime, partsPerHour and recommendedMachine.
C9_QuantityDilutesMoldCost ==
    (IsBreakdown(quoteResults) /\ Gt(parameters.quantity, Num(0))) =>
        \A q2 \in QuantityInputs :
            Lt(parameters.quantity, q2) =>
                /\ IsBreakdown(WithQuantity(q2))
                /\ Lt(WithQuantity(q2).moldCost, quoteResults.moldCost)
                /\ \A f \in {"materialCost", "machineCost", "colorPremium",
                             "cycleTime", "partsPerHour", "recommendedMachine"} :
                      WithQuantity(q2)[f] = quoteResults[f]

\* C9 witness: a breakdown for a quantity that a larger one follows.
C9_Witness ==
    /\ IsBreakdown(quoteResults)
    /\ Gt(parameters.quantity, Num(0))
    /\ \E q2 \in QuantityInputs :
          /\ Lt(parameters.quantity, q2)
          /\ Lt(WithQuantity(q2).moldCost, quoteResults.moldCost)

\* The breakdown for the current inputs with the wall thickness w instead.
WithWallThickness(w) == Quote(parameters, [analysisData EXCEPT !.wallThickness = w])

\* C10: for positive wall thicknesses w1 < w2 and everything else equal, the
\* breakdown for w2 has a strictly larger cycleTime, a strictly smaller
\* partsPerHour and a strictly larger machineCost.
C10_WallThicknessSlowsCycle ==
    (IsBreakdown(quoteResults) /\ Gt(analysisData.wallThickness, Num(0))) =>
        \A w2 \in WallThicknessInputs :
            Lt(analysisData.wallThickness, w2) =>
                /\ IsBreakdown(WithWallThickness(w2))
                /\ Gt(WithWallThickness(w2).cycleTime, quoteResults.cycleTime)
                /\ Lt(WithWallThickness(w2).partsPerHour, quoteResults.partsPerHour)
                /\ Gt(WithWallThickness(w2).machineCost, quoteResults.machineCost)

\* C10 witness: a breakdown for a positive wall thickness that a larger one
\* follows.
C10_Witness ==
    /\ IsBreakdown(quoteResults)
    /\ Gt(analysisData.wallThickness, Num(0))
    /\ \E w2 \in WallThicknessInputs :
          /\ Lt(analysisData.wallThickness, w2)
          /\ Gt(WithWallThickness(w2).cycleTime, quoteResults.cycleTime)

\* The options of the color select and the accuracy tags of a geometry.
ColorInputs == {"natural", "black", "custom"}
AccuracyInputs == {"high", "mocked"}
FactorInputs == {Q(5, 10), Q(12, 10)}

\* The inputs p, a and q, b agree on everything that the claim C11 lists.
AgreeOnEffectiveInputs(p, a, q, b) ==
    /\ a.volume = b.volume
    /\ a.wallThickness = b.wallThickness
    /\ a.dimensions.length = b.dimensions.length
    /\ a.dimensions.width = b.dimensions.width
    /\ p.quantity = q.quantity
    /\ p.cavities = q.cavities
    /\ ResolveMaterial(p.materialId).density = ResolveMaterial(q.materialId).density
    /\ ResolveMaterial(p.materialId).pricePerKg = ResolveMaterial(q.materialId).pricePerKg

Unmemoized(p, a) == IF HookThrows(a) THEN TypeError ELSE Quote(p, a)

\* C12: after any sequence of uploads, analysis responses, loaded quotes and
\* parameter changes, the memoized quoteResults is what the calculation
\* without the memo returns for the current parameters and analysisData.
C12_BreakdownNeverStale ==
    quoteResults = Unmemoized(parameters, analysisData)

\* C12 witness: after an upload that ended with a geometry, the quantity was
\* changed and the breakdown is the one for the new quantity.
C12_Witness ==
    /\ edits > 0
    /\ geometryOf # Null
    /\ parameters.quantity = Num(200)
    /\ IsBreakdown(quoteResults)
    /\ quoteResults.moldCost = Div(Num(14500), Num(200))

\* Inputs that the hook evaluated before the current ones: a computable
\* input and one without a volume.
HistoryInputs ==
    {[p |-> [materialId |-> MATERIALS[2].name, quantity |-> Num(100),
             cavities |-> Num(1), color |-> "natural"],
      a |-> [volume |-> Num(v),
             dimensions |-> [length |-> Num(200), width |-> Num(50), height |-> Num(10)],
             wallThickness |-> Num(1),
             accuracy |-> "high"]] : v \in {0, 1000}}

\* What the hook returns for the current inputs when it evaluated the
\* inputs h before.
ResultAfter(h) ==
    useQuoteCalculator(MemoAfter(NoMemo, h.p, h.a), parameters, analysisData)

\* C13: the result for given parameters and analysisData does not depend on
\* what was evaluated before: it is the result of a hook that evaluated
\* nothing before, and the result of a hook that evaluated other inputs.
C13_DeterministicAndHistoryIndependent ==
    Rendered =>
        /\ quoteResults = useQuoteCalculator(NoMemo, parameters, analysisData)
        /\ \A h \in HistoryInputs : ResultAfter(h) = quoteResults

\* C13 witness: a breakdown that is also returned after the evaluation of
\* other inputs, which gave another result.
C13_Witness ==
    /\ IsBreakdown(quoteResults)
    /\ \A h \in HistoryInputs :
          /\ h.p # parameters /\ h.a # analysisData
          /\ useQuoteCalculator(NoMemo, h.p, h.a) # quoteResults
          /\ ResultAfter(h) = quoteResults

\* The reference input: the geometry of a completed job, ABS, a run of 1000
\* parts, one cavity.
IsReferenceInput ==
    /\ analysisData = GeometryResult
    /\ parameters.materialId = MATERIALS[1].name
    /\ parameters.quantity = Num(1000)
    /\ parameters.cavities = Num(1)

\* C14: for the reference input (volume 187.35, dimensions 65 x 42 x 75, wall
\* thickness 1.8, ABS, quantity 1000, one cavity) the calculation passes the
\* guard and assigns cycleTime = 12.2, partsPerHour = 3600/12.2,
\* moldSizeMM = 182, the machine 'Small (50-100T)' at rate 45,
\* machineCost = 45/partsPerHour, moldEstimate = 14500 and moldCost = 14.5.
C14_ReferenceInput ==
    IsReferenceInput =>
        /\ pc # "returned"
        /\ "cycleTime" \in DOMAIN locals =>
              /\ locals.cycleTime = Q(122, 10)
              /\ locals.partsPerHour = Div(Num(3600), Q(122, 10))
        /\ "moldSizeMM" \in DOMAIN locals =>
              /\ locals.moldSizeMM = Num(182)
              /\ locals.recommendedMachine.size = "Small (50-100T)"
              /\ locals.recommendedMachine.ratePerHour = Num(45)
              /\ locals.machineCostPerPart = Div(Num(45), locals.partsPerHour)
        /\ "moldEstimate" \in DOMAIN locals =>
              /\ locals.moldEstimate = Num(14500)
              /\ locals.moldCostPerPart = Q(145, 10)

\* C14 witness: sections 1 to 4 have run for the reference input.
C14_Witness ==
    /\ IsReferenceInput
    /\ pc = "aggregation"
    /\ locals.cycleTime = Q(122, 10)
    /\ locals.machineCostPerPart = Q(61, 400)
    /\ locals.moldCostPerPart = Q(145, 10)

\* The placeholder geometry as the claim C15 states it.
IsPlaceholderGeometry(a) ==
    /\ WellFormedGeometry(a)
    /\ a.volume = Num(175)
    /\ a.dimensions.length = Num(60)
    /\ a.dimensions.width = Num(50)
    /\ a.dimensions.height = Num(60)
    /\ a.wallThickness = Num(2)
    /\ a.accuracy = "mocked"

\* C15: when analyzeFile ends on its failure path (rejected fetch or a
\* response that is not ok), the geometry is the placeholder, errorMessage is
\* set, the upload is no longer loading and the calculator returns a
\* breakdown for the current parameters.
C15_FailurePathLeavesComputable ==
    [][AnalyzeFileFails =>
          /\ IsPlaceholderGeometry(analysisData')
          /\ errorMessage'.kind = "string"
          /\ ~isLoading'
          /\ IsBreakdown(quoteResults')
          /\ quoteResults' = Quote(parameters', analysisData')]_vars

\* C15 witness: an upload has ended on the failure path.
C15_Witness ==
    /\ request = Null /\ ~isLoading
    /\ "message" \in DOMAIN errorMessage
    /\ IsPlaceholderGeometry(analysisData)
    /\ IsBreakdown(quoteResults)

\* The record that the claim C16 states for a webhook of the given status.
StatedRecord(status) ==
    IF status = "success"
    THEN [status |-> "complete", analysisData |-> GeometryResult]
    ELSE [status |-> "failed", analysisData |-> Null]

\* The last webhook processed for the key k of the storage.
LastWebhookOf(k) == webhooks[IF k = "unknown_job" THEN "" ELSE k]

\* Polling a submitted job returns in-progress exactly when no webhook was
\* processed for it, and else the record of its latest webhook; every stored
\* record is complete with a geometry or failed without one.
JobStoreConsistent ==
    /\ \A j \in submitted :
          LET response == PollHandler("GET", j, MOCK_STORAGE)
          IN  /\ response.status = 200
              /\ response.body.status = "in-progress" <=> webhooks[j] = "none"
              /\ webhooks[j] = "none" => response.body.analysisData = Null
              /\ webhooks[j] # "none" => response.body = StatedRecord(webhooks[j])
    /\ \A k \in DOMAIN MOCK_STORAGE :
          /\ \/ /\ MOCK_STORAGE[k].status = "complete"
                /\ MOCK_STORAGE[k].analysisData # Null
             \/ /\ MOCK_STORAGE[k].status = "failed"
                /\ MOCK_STORAGE[k].analysisData = Null
          /\ MOCK_STORAGE[k].status = "complete" <=> LastWebhookOf(k) = "success"

\* C16: the job store is consistent (see JobStoreConsistent), a poll never
\* modifies the store, and a webhook changes no record but the one of its own
\* job id.
C16_JobStoreConsistency ==
    /\ []JobStoreConsistent
    /\ [][PollStatus => MOCK_STORAGE' = MOCK_STORAGE]_vars
    /\ [][\A k \in JobKeys :
             (/\ k \in DOMAIN MOCK_STORAGE'
              /\ k \in DOMAIN MOCK_STORAGE => MOCK_STORAGE'[k] # MOCK_STORAGE[k])
             => LastWebhookOf(k)' # LastWebhookOf(k)]_vars

\* C16 witness: one job was polled after its webhook and reported complete
\* with the geometry, the other was polled with no webhook yet.
C16_Witness ==
    /\ submitted = JobIds
    /\ webhooks["job-1"] = "success" /\ reported["job-1"] = "complete"
    /\ MOCK_STORAGE["job-1"].analysisData = GeometryResult
    /\ webhooks["job-2"] = "none" /\ reported["job-2"] = "in-progress"
    /\ "job-2" \notin DOMAIN MOCK_STORAGE

\* C17: once a poll has reported 'complete' or 'failed' for a job id, every
\* later poll of that job id reports the same outcome, whatever webhooks
\* arrive in between.
C17_OutcomeIsFinal ==
    [][\A j \in JobIds :
          reported[j] \in {"complete", "failed"} => reported'[j] = reported[j]]_vars

\* saveCurrentQuote may write: a database handle, a signed-in user, a
\* breakdown and a file name are present.
SaveAllowed ==
    /\ db # Null
    /\ userId # Null
    /\ quoteResults # Null
    /\ ~FalsyValue(fileName)

\* C18: a document is added to the history store only when a database
\* handle, a userId, a breakdown and a fileName are present; the 'Cannot
\* save' message is set only when one of them is missing, and nothing is
\* written then; every stored quote holds a breakdown; with firebaseConfig
\* null nothing is ever stored and quoteHistory stays empty.
C18_SaveOnlyWhenComplete ==
    /\ [](/\ \A quote \in store : IsBreakdown(quote.quoteResults)
          /\ firebaseConfig = Null => (store = {} /\ quoteHistory = <<>>))
    /\ [][~(store' \subseteq store) =>
             /\ SaveAllowed
             /\ \A quote \in store' \ store :
                   /\ quote.quoteResults = quoteResults
                   /\ quote.fileName = fileName]_vars
    /\ [][SaveCurrentQuoteRefused =>
             /\ ~SaveAllowed
             /\ store' = store
             /\ errorMessage' = CannotSaveMessage]_vars
    /\ [][(errorMessage' = CannotSaveMessage /\ errorMessage # CannotSaveMessage)
             => (~SaveAllowed /\ store' = store)]_vars

\* C18 witness: a quote was saved, with its breakdown, by a signed-in user.
C18_Witness ==
    /\ db # Null /\ userId # Null
    /\ \E quote \in store :
          /\ IsBreakdown(quote.quoteResults)
          /\ quote.fileName = fileName
          /\ quote.quoteResults = quoteResults

LiveSpec == Spec /\ WF_vars(AnalyzeFileResponseOk \/ AnalyzeFileFails)

\* C19, liveness half: every upload ends with isLoading = false.
C19_LoadingEnds == isLoading ~> ~isLoading

\* C20: parameters.quantity is an integer >= 100 and parameters.cavities is
\* one of 1, 2, 4, 8, in the state and in every saved quote; the calculator
\* returns null only for a geometry without volume.
C20_ParametersStayInRange ==
    /\ parameters.quantity.d = 1
    /\ Leq(Num(100), parameters.quantity)
    /\ parameters.cavities \in {Num(1), Num(2), Num(4), Num(8)}
    /\ \A quote \in store :
          /\ quote.parameters.quantity.d = 1
          /\ Leq(Num(100), quote.parameters.quantity)
          /\ quote.parameters.cavities \in {Num(1), Num(2), Num(4), Num(8)}
    /\ quoteResults = Null => Falsy(analysisData.volume)

\* C20 witness: a quantity below 100 was typed, and the breakdown is the one
\* for 100 parts.
C20_Witness ==
    /\ edits > 0
    /\ parameters.quantity = Num(100)
    /\ IsBreakdown(quoteResults)
    /\ quoteResults.moldCost = Num(145)

====
